---- MODULE Spec2Model ----
(***************************************************************************)
(* Branch-and-bound roommate matching (3_Exhaustive_Algorithm.ipynb, which  *)
(* holds both the exhaustive enumerator and the branch-and-bound engine).   *)
(*                                                                          *)
(* Scores are float64 in the code.  Here a score is an integer that counts  *)
(* halves: the integer x stands for the float x/2.  Every weight of the     *)
(* matrix is a whole number, so it is an even integer here, sums of weights *)
(* are exact, and the division additional / 2.0 of compute_upper_bound is   *)
(* exact as well.  A bitmask is the set of the entities whose bit is set.   *)
(***************************************************************************)
EXTENDS Integers, Sequences, FiniteSets, TLC

\* Largest number of students n of an input.
MaxN == 4

\* Largest weight (in whole units) of the plain non-negative inputs.
MaxWeight == 2

\* Largest n of the grouped inputs, which start above MaxN.
MaxGroupedN == 6

VARIABLES
    n,              \* number of students
    comp,           \* the n x n compatibility matrix
    stable,         \* tie order of np.argsort, fixed for the build
    pc,             \* "idle", "call", "loop", "ret", "done"
    call,           \* arguments of the search call being entered
    stack,          \* frames of the search calls that are in their for loop
    best_score,     \* best_score[0]
    best_pairs,     \* typed list
    current_pairs,  \* typed list
    memo,           \* typed dict: mask -> upper bound
    allocations,    \* allocations[0]
    result,         \* tuple returned by the last finished solve
    prev,           \* tuple returned by the solve before it
    reached         \* history: the pairings that reached the base case

vars == <<n, comp, stable, pc, call, stack, best_score, best_pairs,
          current_pairs, memo, allocations, result, prev, reached>>

NoResult == <<>>

\* The float v as a count of halves.
Fix(v) == 2 * v

\* best_score = np.array([-1e9]).
Sentinel == Fix(-1000000000)

\* The whole-number weight whose float is the sentinel itself (-1e9).
Big == Sentinel \div 2

Entities(nn) == 0 .. (nn - 1)

UpperPairs(nn) == {p \in Entities(nn) \X Entities(nn) : p[1] < p[2]}

\* Weight palettes of the inputs (whole units): two-valued ones for every
\* size (0 and 1, the 5 and 1 of the 4-entity scenario, mixed signs, a weight
\* as low as the sentinel), and the plain range 0 .. MaxWeight for the even
\* sizes, the only ones that have a complete pairing.
Palettes(nn) ==
    {{0, 1}, {1, 5}, {-1, 1}, {Big, 0}}
        \cup (IF nn % 2 = 0 THEN {0 .. MaxWeight} ELSE {})

\* Grouped inputs: every student is of kind 0 or 1 and the weight of a pair
\* depends on the two kinds only.
KindPairs == {<<0, 0>>, <<0, 1>>, <<1, 1>>}

GroupWeights == {0, 2, 3}

GroupedEdges(nn, kind, table) ==
    [p \in UpperPairs(nn) |->
        table[IF kind[p[1]] <= kind[p[2]] THEN <<kind[p[1]], kind[p[2]]>>
              ELSE <<kind[p[2]], kind[p[1]]>>]]

\* comp = np.zeros((n, n)); comp[i, j] = comp[j, i] = score.
BuildComp(nn, u) ==
    [p \in Entities(nn) \X Entities(nn) |->
        IF p[1] = p[2] THEN 0
        ELSE IF p[1] < p[2] THEN Fix(u[p]) ELSE Fix(u[<<p[2], p[1]>>])]

Min(S) == CHOOSE x \in S : \A y \in S : x <= y

\* full_mask = np.int64((1 << n) - 1)
full_mask == Entities(n)

\* candidate_arr: the entities of new_mask in increasing index order.
RECURSIVE candidates_from(_, _)
candidates_from(new_mask, j) ==
    IF j >= n THEN <<>>
    ELSE (IF j \in new_mask THEN <<j>> ELSE <<>>) \o candidates_from(new_mask, j + 1)

candidate_arr(new_mask) == candidates_from(new_mask, 0)

\* np.argsort(keys): the positions of keys in increasing order of key.  The
\* sort is deterministic; among equal keys it keeps the positions in
\* increasing order when the sort is stable and in decreasing order otherwise.
Before(keys, a, b) ==
    \/ keys[a] < keys[b]
    \/ keys[a] = keys[b] /\ (IF stable THEN a < b ELSE a > b)

argsort(keys) ==
    [r \in 1 .. Len(keys) |->
        CHOOSE a \in 1 .. Len(keys) :
            Cardinality({b \in 1 .. Len(keys) : Before(keys, b, a)}) = r - 1]

\* The candidates in the order argsort gives, without the reversal.
sorted_candidates_ascending(i, new_mask) ==
    LET arr        == candidate_arr(new_mask)
        order_temp == argsort([a \in 1 .. Len(arr) |-> comp[<<i, arr[a]>>]])
    IN  [k \in 1 .. Len(order_temp) |-> arr[order_temp[k]]]

\* order[k] = order_temp[m - 1 - k]; sorted_candidates = candidate_arr[order].
\* arr and order_temp are arrays computed once: they are bound as values.
sorted_candidates(i, new_mask) ==
    CHOOSE sorted \in
        UNION {{LET m     == Len(order_temp)
                    order == [k \in 1 .. m |-> order_temp[m + 1 - k]]
                IN  [k \in 1 .. m |-> arr[order[k]]] :
                  order_temp \in
                      {argsort([a \in 1 .. Len(arr) |-> comp[<<i, arr[a]>>]])}} :
               arr \in {candidate_arr(new_mask)}} : TRUE

\* The inner loop of compute_upper_bound: the best partner value of i.
best_val(mask, i) ==
    LET vals == {comp[<<i, j>>] : j \in mask \ {i}} \cup {0}
    IN  CHOOSE v \in vals : \A w \in vals : w <= v

\* for i in range(n): if mask & (1 << i): ... additional += best_val
RECURSIVE SumBest(_, _)
SumBest(mask, i) ==
    IF i >= n THEN 0
    ELSE (IF i \in mask THEN best_val(mask, i) ELSE 0) + SumBest(mask, i + 1)

\* The sum of the best values halved twice.
compute_upper_bound_quarter(mask) == SumBest(mask, 0) \div 4

\* A slip of the inner loop: only partners j > i are looked at.
RECURSIVE SumBestAbove(_, _)
SumBestAbove(mask, rest) ==
    IF rest = {} THEN 0
    ELSE LET i == Min(rest)
         IN  best_val({j \in mask : j >= i}, i) + SumBestAbove(mask, rest \ {i})

compute_upper_bound_above(mask) == SumBestAbove(mask, mask) \div 2

\* compute_upper_bound(mask, comp, n): additional / 2.0.
compute_upper_bound(mask) == SumBest(mask, 0) \div 2

\* A complete pairing that only ties the best one replaces it.
ImprovesOrTies(current_score, best) == current_score >= best

\* The base case records a pairing that scores below the best one.
ImprovesBelow(current_score, best) == current_score < best

\* if current_score > best_score[0]
Improves(current_score, best) == current_score > best

\* The pruning test with half of the bound.
PrunesHalfBound(current_score, ub, best) == current_score + ub \div 2 <= best

\* The pruning test without the bound.
PrunesNoBound(current_score, ub, best) == current_score <= best

\* if current_score + ub_val <= best_score[0]: return
Prunes(current_score, ub, best) == current_score + ub <= best

\* The candidate is left in the child state.
next_mask_same(new_mask, j) == new_mask

\* next_mask = new_mask & ~(1 << j)
next_mask(new_mask, j) == new_mask \ {j}

\* The counter bumped twice for one pairing decision.
CountAllocationTwice(a) == a + 2

\* allocations[0] += 1
CountAllocation(a) == a + 1

\* The list is handed back with its old elements still in it.
clear_typed_list_keep(typed_list) == typed_list

\* clear_typed_list(typed_list): pops every element.
RECURSIVE clear_typed_list(_)
clear_typed_list(typed_list) ==
    IF Len(typed_list) = 0 THEN typed_list
    ELSE clear_typed_list(SubSeq(typed_list, 1, Len(typed_list) - 1))

\* for idx in range(len(current_pairs)): best_pairs.append(current_pairs[idx])
RECURSIVE CopyInto(_, _, _)
CopyInto(dst, src, idx) ==
    IF idx > Len(src) THEN dst ELSE CopyInto(Append(dst, src[idx]), src, idx + 1)

\* The context of a solve that keeps the best record and the bound cache of
\* the solve before it.
StaleContext ==
    [best_score |-> best_score, best_pairs |-> best_pairs,
     current_pairs |-> <<>>, memo |-> memo, allocations |-> 0]

\* The containers branch_and_bound_numba creates for one solve.
FreshContext ==
    [best_score |-> Sentinel, best_pairs |-> <<>>,
     current_pairs |-> <<>>, memo |-> <<>>, allocations |-> 0]

\* exhaustive_search_njit: st holds best_score[0], best_pairs, allocations[0],
\* and (history) the pairings that reached the base case, in order.
RECURSIVE exhaustive_search_njit(_, _, _, _)
RECURSIVE exhaustive_loop(_, _, _, _, _, _)
exhaustive_search_njit(mask, current_score, pairs, st) ==
    IF mask = {}
    THEN IF current_score > st.best_score
         THEN [st EXCEPT !.best_score = current_score, !.best_pairs = pairs,
                         !.reached = Append(@, pairs)]
         ELSE [st EXCEPT !.reached = Append(@, pairs)]
    ELSE LET i        == Min(mask)
             new_mask == mask \ {i}
         IN  exhaustive_loop(i, new_mask, new_mask, current_score, pairs, st)

\* The loop tries its first candidate and stops.
exhaustive_loop_first(i, new_mask, candidate, current_score, pairs, st) ==
    IF candidate = {} THEN st
    ELSE LET j       == Min(candidate)
             counted == [st EXCEPT !.allocations = @ + 1]
         IN  exhaustive_search_njit(new_mask \ {j},
                 current_score + comp[<<i, j>>],
                 Append(pairs, <<i, j>>), counted)

\* while candidate: j = lowest bit of candidate; ...
exhaustive_loop(i, new_mask, candidate, current_score, pairs, st) ==
    IF candidate = {} THEN st
    ELSE LET j         == Min(candidate)
             counted   == [st EXCEPT !.allocations = @ + 1]
             after     == exhaustive_search_njit(new_mask \ {j},
                              current_score + comp[<<i, j>>],
                              Append(pairs, <<i, j>>), counted)
         IN  exhaustive_loop(i, new_mask, candidate \ {j}, current_score,
                             pairs, after)

\* exhaustive_search_wrapper(comp, n)
exhaustive_run ==
    exhaustive_search_njit(full_mask, 0, <<>>,
        [best_score |-> Sentinel, best_pairs |-> <<>>, allocations |-> 0,
         reached |-> <<>>])

exhaustive_search_wrapper ==
    LET st == exhaustive_run
    IN  <<st.best_score, st.best_pairs, st.allocations>>


MemoPut(d, k, v) == [x \in (DOMAIN d) \cup {k} |-> IF x = k THEN v ELSE d[x]]

----
Init ==
    /\ \/ \E nn \in 0 .. MaxN : \E pal \in Palettes(nn) :
            \E u \in [UpperPairs(nn) -> pal] :
               \* at most one weight of a pairing is Big: totals stay in range
               /\ \A p \in UpperPairs(nn) : u[p] = Big => p[1] = 0
               /\ n = nn
               /\ comp = BuildComp(nn, u)
       \/ \E nn \in (MaxN + 1) .. MaxGroupedN :
            \E kind \in [Entities(nn) -> {0, 1}] :
               \E table \in [KindPairs -> GroupWeights] :
                  /\ kind[0] = 0
                  /\ n = nn
                  /\ comp = BuildComp(nn, GroupedEdges(nn, kind, table))
    /\ stable \in BOOLEAN
    /\ pc = "idle"
    /\ call = [mask |-> {}, current_score |-> 0]
    /\ stack = <<>>
    /\ best_score = Sentinel
    /\ best_pairs = <<>>
    /\ current_pairs = <<>>
    /\ memo = <<>>
    /\ allocations = 0
    /\ result = NoResult
    /\ prev = NoResult
    /\ reached = <<>>

\* branch_and_bound_numba(comp, n), up to its call of search.
branch_and_bound_numba ==
    /\ pc \in {"idle", "done"}
    /\ best_score' = FreshContext.best_score
    /\ best_pairs' = FreshContext.best_pairs
    /\ current_pairs' = FreshContext.current_pairs
    /\ memo' = FreshContext.memo
    /\ allocations' = FreshContext.allocations
    /\ call' = [mask |-> full_mask, current_score |-> 0]
    /\ stack' = <<>>
    /\ prev' = IF pc = "done" THEN result ELSE prev
    /\ result' = NoResult
    /\ reached' = <<>>
    /\ pc' = "call"
    /\ UNCHANGED <<n, comp, stable>>

\* search, base case: all students paired.
search_base ==
    /\ pc = "call"
    /\ call.mask = {}
    /\ IF Improves(call.current_score, best_score)
       THEN /\ best_score' = call.current_score
            /\ best_pairs' = CopyInto(clear_typed_list(best_pairs), current_pairs, 1)
       ELSE UNCHANGED <<best_score, best_pairs>>
    /\ reached' = Append(reached, current_pairs)
    /\ pc' = "ret"
    /\ UNCHANGED <<n, comp, stable, call, stack, current_pairs, memo,
                   allocations, result, prev>>

\* On a cache hit the bound is taken as 0 instead of the cached value.
ub_val_hit_zero == IF call.mask \in DOMAIN memo THEN 0
                   ELSE compute_upper_bound(call.mask)

\* The bound search uses for call.mask: the cached one, or a new one.
ub_val == IF call.mask \in DOMAIN memo THEN memo[call.mask]
          ELSE compute_upper_bound(call.mask)

\* The cache entry written is the bound plus the score of the path so far.
memo_after_path ==
    IF call.mask \in DOMAIN memo THEN memo
    ELSE MemoPut(memo, call.mask, call.current_score + ub_val)

memo_after == IF call.mask \in DOMAIN memo THEN memo
              ELSE MemoPut(memo, call.mask, ub_val)

\* search, pruned, without the return: the call is entered again.
search_prune_again ==
    /\ pc = "call"
    /\ call.mask # {}
    /\ Prunes(call.current_score, ub_val, best_score)
    /\ memo' = memo_after
    /\ pc' = "call"
    /\ UNCHANGED <<n, comp, stable, call, stack, best_score, best_pairs,
                   current_pairs, allocations, result, prev, reached>>

\* search, pruned: the bound test returns before any candidate is tried.
search_prune ==
    /\ pc = "call"
    /\ call.mask # {}
    /\ Prunes(call.current_score, ub_val, best_score)
    /\ memo' = memo_after
    /\ pc' = "ret"
    /\ UNCHANGED <<n, comp, stable, call, stack, best_score, best_pairs,
                   current_pairs, allocations, result, prev, reached>>

\* search, expanding: pivot, candidates, and entry to the for loop.
search_expand ==
    /\ pc = "call"
    /\ call.mask # {}
    /\ ~Prunes(call.current_score, ub_val, best_score)
    /\ memo' = memo_after
    /\ LET i        == Min(call.mask)
           new_mask == call.mask \ {i}
       IN  stack' = Append(stack,
                [mask |-> call.mask, current_score |-> call.current_score,
                 i |-> i, new_mask |-> new_mask,
                 sorted_candidates |-> sorted_candidates(i, new_mask), k |-> 1])
    /\ pc' = "loop"
    /\ UNCHANGED <<n, comp, stable, call, best_score, best_pairs,
                   current_pairs, allocations, result, prev, reached>>

Top == stack[Len(stack)]

\* search, one iteration of "for j in sorted_candidates" up to the recursive call.
search_try ==
    /\ pc = "loop"
    /\ Top.k <= Len(Top.sorted_candidates)
    /\ LET j          == Top.sorted_candidates[Top.k]
           pair_score == comp[<<Top.i, j>>]
       IN  /\ current_pairs' = Append(current_pairs, <<Top.i, j>>)
           /\ allocations' = CountAllocation(allocations)
           /\ call' = [mask |-> next_mask(Top.new_mask, j),
                       current_score |-> Top.current_score + pair_score]
    /\ pc' = "call"
    /\ UNCHANGED <<n, comp, stable, stack, best_score, best_pairs, memo,
                   result, prev, reached>>

\* search, the for loop is exhausted: the call returns.
search_loop_end ==
    /\ pc = "loop"
    /\ Top.k > Len(Top.sorted_candidates)
    /\ stack' = SubSeq(stack, 1, Len(stack) - 1)
    /\ pc' = "ret"
    /\ UNCHANGED <<n, comp, stable, call, best_score, best_pairs,
                   current_pairs, memo, allocations, result, prev, reached>>

\* Back in the caller's loop with the pair of the finished call left in place.
search_backtrack_no_pop ==
    /\ pc = "ret"
    /\ stack # <<>>
    /\ stack' = [stack EXCEPT ![Len(stack)].k = @ + 1]
    /\ pc' = "loop"
    /\ UNCHANGED <<n, comp, stable, call, best_score, best_pairs, memo,
                   allocations, result, prev, reached, current_pairs>>

\* Back in the caller's loop after the recursive call: current_pairs.pop().
search_backtrack ==
    /\ pc = "ret"
    /\ stack # <<>>
    /\ current_pairs' = SubSeq(current_pairs, 1, Len(current_pairs) - 1)
    /\ stack' = [stack EXCEPT ![Len(stack)].k = @ + 1]
    /\ pc' = "loop"
    /\ UNCHANGED <<n, comp, stable, call, best_score, best_pairs, memo,
                   allocations, result, prev, reached>>

\* branch_and_bound_numba: return best_score[0], best_pairs, allocations[0].
solve_return ==
    /\ pc = "ret"
    /\ stack = <<>>
    /\ result' = <<best_score, best_pairs, allocations>>
    /\ pc' = "done"
    /\ UNCHANGED <<n, comp, stable, call, stack, best_score, best_pairs,
                   current_pairs, memo, allocations, prev, reached>>

Next ==
    \/ branch_and_bound_numba
    \/ search_base
    \/ search_prune
    \/ search_expand
    \/ search_try
    \/ search_loop_end
    \/ search_backtrack
    \/ solve_return

Spec == Init /\ [][Next]_vars

\* The code is one thread of synchronous calls: it always takes its next step.
FairSpec == Spec /\ WF_vars(Next)

----
(***************************************************************************)
(* Vocabulary of the properties.                                           *)
(***************************************************************************)
Even(x) == x % 2 = 0

NonNegative == \A p \in DOMAIN comp : comp[p] >= 0

HasNegative == \E p \in DOMAIN comp : comp[p] < 0

\* The perfect matchings of the set S, each a set of pairs <<i, j>>, i < j.
RECURSIVE PerfectMatchings(_)
PerfectMatchings(S) ==
    IF S = {} THEN {{}}
    ELSE LET i == Min(S)
         IN  UNION {{{<<i, j>>} \cup M : M \in PerfectMatchings(S \ {i, j})} :
                        j \in S \ {i}}

RECURSIVE MatchingWeight(_)
MatchingWeight(M) ==
    IF M = {} THEN 0
    ELSE LET p == CHOOSE q \in M : TRUE
         IN  comp[p] + MatchingWeight(M \ {p})

MaxOf(V) == CHOOSE v \in V : \A w \in V : w <= v

\* Maximum total weight of a perfect matching of S (S of even cardinality).
Opt(S) == MaxOf({MatchingWeight(M) : M \in PerfectMatchings(S)})

RECURSIVE PairingScore(_)
PairingScore(pairs) ==
    IF pairs = <<>> THEN 0
    ELSE comp[pairs[1]] + PairingScore(Tail(pairs))

\* pairs is a perfect matching of the nn entities.
IsPerfectMatching(pairs, nn) ==
    /\ Len(pairs) * 2 = nn
    /\ \A k \in 1 .. Len(pairs) :
          /\ pairs[k][1] # pairs[k][2]
          /\ {pairs[k][1], pairs[k][2]} \subseteq Entities(nn)
    /\ \A e \in Entities(nn) :
          Cardinality({k \in 1 .. Len(pairs) : e \in {pairs[k][1], pairs[k][2]}}) = 1

\* The complete pairings below mask in the order the unpruned depth-first
\* search reaches them: pivot = lowest index, candidates in the search's order.
RECURSIVE DfsPairings(_, _)
RECURSIVE DfsFrom(_, _, _, _)
DfsPairings(mask, pairs) ==
    IF mask = {} THEN <<pairs>>
    ELSE LET i == Min(mask)
         IN  DfsFrom(mask, pairs, sorted_candidates(i, mask \ {i}), 1)

DfsFrom(mask, pairs, cands, k) ==
    IF k > Len(cands) THEN <<>>
    ELSE LET i == Min(mask)
         IN  DfsPairings(mask \ {i, cands[k]}, Append(pairs, <<i, cands[k]>>))
                \o DfsFrom(mask, pairs, cands, k + 1)

\* The first pairing of maximum score in that order.
FirstOptimal ==
    LET all  == DfsPairings(full_mask, <<>>)
        best == MaxOf({PairingScore(all[k]) : k \in 1 .. Len(all)})
        at   == Min({k \in 1 .. Len(all) : PairingScore(all[k]) = best})
    IN  all[at]

SeveralOptimal ==
    Cardinality({M \in PerfectMatchings(full_mask) :
                    MatchingWeight(M) = Opt(full_mask)}) >= 2

\* The 4-entity scenario: w(0,1) = w(2,3) = 5, every other weight 1.
ScenarioA ==
    /\ n = 4
    /\ \A p \in UpperPairs(4) :
          comp[p] = IF p \in {<<0, 1>>, <<2, 3>>} THEN Fix(5) ELSE Fix(1)

----
(***************************************************************************)
(* C1.  For even n >= 2 and a symmetric matrix of non-negative scores, the *)
(* best score branch_and_bound_numba returns equals the best score of      *)
(* exhaustive_search_wrapper on the same input, which is the maximum total *)
(* weight over all perfect matchings; on the 4-entity scenario it is 10    *)
(* with the pairing (0,1),(2,3).                                           *)
(***************************************************************************)
C1_CrossValidation ==
    (pc = "done" /\ n >= 2 /\ Even(n) /\ NonNegative) =>
        /\ result[1] = exhaustive_search_wrapper[1]
        /\ result[1] = Opt(full_mask)
        /\ ScenarioA => /\ result[1] = Fix(10)
                        /\ result[2] = <<<<0, 1>>, <<2, 3>>>>

\* The scenario solved, with fewer pairing decisions than the enumeration.
C1_Witness ==
    /\ pc = "done"
    /\ ScenarioA
    /\ result[1] = Fix(10)
    /\ result[3] < exhaustive_search_wrapper[3]

(***************************************************************************)
(* C2.  For every even n >= 2 the best pairing branch_and_bound_numba      *)
(* returns is a perfect matching: n/2 pairs, every entity in exactly one   *)
(* pair, no pair with the same id twice.                                   *)
(***************************************************************************)
C2_PerfectMatching ==
    (pc = "done" /\ n >= 2 /\ Even(n)) => IsPerfectMatching(result[2], n)

(***************************************************************************)
(* C3.  When n is odd, solve fails before any search step is taken and no  *)
(* score or pairing is returned: the search is never entered.              *)
(***************************************************************************)
C3_OddRejected ==
    (~Even(n)) => (pc = "idle" /\ result = NoResult /\ allocations = 0)

(***************************************************************************)
(* C4.  When n = 0, solve returns score 0, an empty pairing and a node     *)
(* count of 0 (the model has no error outcome: the code raises none).      *)
(***************************************************************************)
C4_EmptyInput ==
    (pc = "done" /\ n = 0) => result = <<0, <<>>, 0>>

C4_Witness == pc = "done" /\ n = 0 /\ result[1] = 0

(***************************************************************************)
(* C5.  When several perfect matchings attain the maximum total score,     *)
(* solve returns the one that comes first in the unpruned depth-first      *)
(* order (pivot = lowest unmatched index, candidates in the order the      *)
(* search tries them).                                                     *)
(***************************************************************************)
C5_FirstOptimalReturned ==
    (pc = "done" /\ n >= 2 /\ Even(n) /\ SeveralOptimal) =>
        result[2] = FirstOptimal

(***************************************************************************)
(* C6.  For a symmetric matrix of non-negative scores, every state of even *)
(* cardinality passed to search has compute_upper_bound(state) >= the      *)
(* maximum total weight of a perfect matching of the entities in it.       *)
(***************************************************************************)
C6_BoundAdmissible ==
    (pc = "call" /\ NonNegative /\ Even(Cardinality(call.mask))) =>
        compute_upper_bound(call.mask) >= Opt(call.mask)

\* A four-entity state whose bound is strictly above its optimum.
C6_Witness ==
    /\ pc = "call"
    /\ NonNegative
    /\ Cardinality(call.mask) = 4
    /\ Opt(call.mask) > 0
    /\ compute_upper_bound(call.mask) > Opt(call.mask)

(***************************************************************************)
(* C7 (as claimed).  When the matrix contains negative scores, some state  *)
(* of even cardinality the search reached has an upper bound strictly      *)
(* below the best additional score achievable from it.                     *)
(***************************************************************************)
C7_Original ==
    (pc = "done" /\ n >= 2 /\ Even(n) /\ HasNegative) =>
        \E S \in (DOMAIN memo) \cup {{}} :
            /\ Even(Cardinality(S))
            /\ compute_upper_bound(S) < Opt(S)

(***************************************************************************)
(* C7 (amended).  Also when the matrix contains negative scores, every     *)
(* state of even cardinality passed to search has an upper bound (floor at *)
(* 0 included) >= the best additional score achievable from it, and the    *)
(* pruning test discards no branch that holds a pairing better than the    *)
(* recorded best.                                                          *)
(***************************************************************************)
C7_BoundAdmissibleWithNegatives ==
    (pc = "call" /\ HasNegative /\ Even(Cardinality(call.mask))) =>
        /\ compute_upper_bound(call.mask) >= Opt(call.mask)
        /\ Prunes(call.current_score, compute_upper_bound(call.mask), best_score)
              => call.current_score + Opt(call.mask) <= best_score

\* A state with only negative options left is pruned: its bound is floored
\* at 0 and its only completion is worse than the recorded best.
C7_Witness ==
    /\ pc = "call"
    /\ HasNegative
    /\ Cardinality(call.mask) = 2
    /\ Opt(call.mask) < 0
    /\ compute_upper_bound(call.mask) = 0
    /\ Prunes(call.current_score, compute_upper_bound(call.mask), best_score)

(***************************************************************************)
(* C8.  For every even n and every matrix, the node count                  *)
(* branch_and_bound_numba returns is <= the allocation count               *)
(* exhaustive_search_wrapper returns on the same input.                    *)
(***************************************************************************)
C8_NodesAtMostExhaustive ==
    (pc = "done" /\ Even(n)) => result[3] <= exhaustive_search_wrapper[3]

\* Six entities, and strictly fewer nodes than the enumeration.
C8_Witness ==
    /\ pc = "done"
    /\ n = 6
    /\ result[3] > 0
    /\ result[3] < exhaustive_search_wrapper[3]

(***************************************************************************)
(* C9.  Two runs of branch_and_bound_numba on the same matrix and n return *)
(* the same score, the same pairing (same pairs, same order) and the same  *)
(* node count: nothing of the earlier solve changes the later one.         *)
(***************************************************************************)
C9_Deterministic ==
    (pc = "done" /\ prev # NoResult) => result = prev

\* A second solve of six entities has finished, having pruned and recorded.
C9_Witness ==
    /\ pc = "done"
    /\ prev # NoResult
    /\ n = 6
    /\ Len(result[2]) = 3
    /\ result[3] < exhaustive_search_wrapper[3]

(***************************************************************************)
(* C10.  For every even n >= 2 and every matrix, whatever the sign and     *)
(* magnitude of its scores, the first complete pairing the search reaches  *)
(* is recorded as the best solution.                                       *)
(***************************************************************************)
C10_FirstPairingRecorded ==
    [][(search_base /\ n >= 2 /\ Even(n) /\ best_pairs = <<>>)
          => (best_score' = call.current_score /\ best_pairs' = current_pairs)]_vars

(***************************************************************************)
(* C11.  At every point between two search calls of one solve on even n,   *)
(* the best record is either in its initial state (sentinel score, empty   *)
(* pairing) or holds a perfect matching of all n entities whose pair       *)
(* weights sum to the recorded best score.                                 *)
(***************************************************************************)
C11_ValidIncumbent ==
    Even(n) =>
        \/ best_score = Sentinel /\ best_pairs = <<>>
        \/ /\ IsPerfectMatching(best_pairs, n)
           /\ PairingScore(best_pairs) = best_score

\* In the middle of a search with an incumbent that is valid but not optimal.
C11_Witness ==
    /\ pc = "loop"
    /\ Even(n)
    /\ n >= 4
    /\ Len(stack) >= 2
    /\ IsPerfectMatching(best_pairs, n)
    /\ best_score < Opt(full_mask)

\* The call has returned, or is in its loop with nothing to try.
NoCandidateTried ==
    \/ pc = "ret"
    \/ pc = "loop" /\ Top.sorted_candidates = <<>>

(***************************************************************************)
(* C12.  A search call on a non-empty state returns without trying any     *)
(* candidate exactly when currentScore + upperBound(state) <= bestScore at *)
(* the moment of the call, whether the bound is cached or just computed.   *)
(***************************************************************************)
C12_PruneExactly ==
    [][(pc = "call" /\ call.mask # {}) =>
          (NoCandidateTried' <=>
              Prunes(call.current_score, compute_upper_bound(call.mask),
                     best_score))]_vars

(***************************************************************************)
(* C13.  During one solve a bound-cache entry is written only when its     *)
(* state is absent from the cache, and is never overwritten or removed     *)
(* afterwards; at every point every cached state maps to exactly           *)
(* compute_upper_bound of that state.                                      *)
(***************************************************************************)
C13_CacheWriteOnce ==
    [][/\ \A S \in DOMAIN memo' : memo'[S] = compute_upper_bound(S)
       /\ pc \in {"call", "loop", "ret"} =>
            /\ \A S \in DOMAIN memo : S \in DOMAIN memo' /\ memo'[S] = memo[S]
            /\ memo' # memo =>
                 /\ pc = "call"
                 /\ call.mask \notin DOMAIN memo
                 /\ DOMAIN memo' = DOMAIN memo \cup {call.mask}]_vars

\* A call whose state is already cached, next to other cached states.
C13_Witness ==
    /\ pc = "call"
    /\ call.mask # {}
    /\ call.mask \in DOMAIN memo
    /\ Cardinality(DOMAIN memo) >= 3
    /\ memo[call.mask] = compute_upper_bound(call.mask)

\* The candidate the innermost open call is trying.
TriedCandidate == Top.sorted_candidates[Top.k]

(***************************************************************************)
(* C14.  For even n, every state passed to a search call has an even       *)
(* number of unmatched entities, and each child state is the parent state  *)
(* minus exactly the pivot i and the chosen candidate j.                   *)
(***************************************************************************)
C14_ChildState ==
    (Even(n) /\ pc = "call") =>
        /\ Cardinality(call.mask) % 2 = 0
        /\ stack = <<>> => call.mask = full_mask
        /\ stack # <<>> =>
             /\ Top.i \in Top.mask
             /\ TriedCandidate \in Top.mask
             /\ TriedCandidate # Top.i
             /\ call.mask = Top.mask \ {Top.i, TriedCandidate}
             /\ Cardinality(call.mask) = Cardinality(Top.mask) - 2

\* A call two levels below the root on a state that still has entities.
C14_Witness ==
    /\ pc = "call"
    /\ Even(n)
    /\ Len(stack) >= 2
    /\ call.mask # {}
    /\ call.mask = Top.mask \ {Top.i, TriedCandidate}

\* The pairs chosen by the d outermost open calls, outermost first.
PathPairs(d) ==
    [x \in 1..d |-> <<stack[x].i, stack[x].sorted_candidates[stack[x].k]>>]

\* The entities that occur in a pairing.
Covered(pairs) ==
    UNION {{pairs[x][1], pairs[x][2]} : x \in DOMAIN pairs}

(***************************************************************************)
(* C15.  At entry to every search call the partial pairing holds exactly   *)
(* (n - popcount(state)) / 2 pairs and these cover exactly the entities    *)
(* absent from the state; when the call returns the partial pairing is     *)
(* what it was at entry (the choices of the calls still open); it is empty *)
(* when the solve finishes.                                                *)
(***************************************************************************)
C15_PartialPairing ==
    /\ pc = "call" =>
         /\ 2 * Len(current_pairs) = n - Cardinality(call.mask)
         /\ Covered(current_pairs) = Entities(n) \ call.mask
    /\ pc \in {"call", "ret"} => current_pairs = PathPairs(Len(stack))
    /\ pc = "done" => current_pairs = <<>>

\* A call returns to a caller that has already backtracked once.
C15_Witness ==
    /\ pc = "ret"
    /\ stack # <<>>
    /\ Top.k >= 2
    /\ Len(current_pairs) >= 2
    /\ current_pairs = PathPairs(Len(stack))

(***************************************************************************)
(* C16.  During one solve the best score changes only in the terminal case *)
(* and only to a strictly greater value, and the best pairing is replaced  *)
(* only together with the score.                                           *)
(***************************************************************************)
C16_BestOnlyImproves ==
    [][(pc \in {"call", "loop", "ret"}) =>
          /\ best_score' # best_score =>
               /\ pc = "call"
               /\ call.mask = {}
               /\ best_score' > best_score
               /\ best_score' = call.current_score
          /\ best_pairs' # best_pairs => best_score' # best_score]_vars

\* A complete pairing that beats an incumbent recorded earlier in the solve.
C16_Witness ==
    /\ pc = "call"
    /\ call.mask = {}
    /\ best_pairs # <<>>
    /\ best_score > Sentinel
    /\ call.current_score > best_score

\* A pairing as a set of unordered pairs.
AsSet(pairs) == {{pairs[x][1], pairs[x][2]} : x \in DOMAIN pairs}

\* A matching of PerfectMatchings as a set of unordered pairs.
Unordered(M) == {{p[1], p[2]} : p \in M}

\* No two entries of the history are the same set of unordered pairs.
NoRepeat(hist) ==
    \A a, b \in DOMAIN hist : a # b => AsSet(hist[a]) # AsSet(hist[b])

(***************************************************************************)
(* C17.  No perfect matching, taken as a set of unordered pairs, reaches   *)
(* the terminal case more than once in one solve; in the exhaustive        *)
(* enumerator every perfect matching reaches it exactly once.              *)
(***************************************************************************)
C17_ReachedOnce ==
    /\ NoRepeat(reached)
    /\ \A a \in DOMAIN reached : IsPerfectMatching(reached[a], n)
    /\ pc = "done" =>
         LET all == exhaustive_run.reached
         IN  /\ NoRepeat(all)
             /\ {AsSet(all[a]) : a \in DOMAIN all} =
                    {Unordered(M) : M \in PerfectMatchings(full_mask)}

\* A finished solve that reached several complete pairings, on an input
\* where the enumerator reaches more of them.
C17_Witness ==
    /\ pc = "done"
    /\ n >= 4
    /\ Len(reached) >= 2
    /\ Len(exhaustive_run.reached) > Len(reached)

\* The candidate list of an open call: the entities of its state other than
\* the pivot, each once, in non-increasing order of weight with the pivot.
CandidatesInOrder(f) ==
    LET c == f.sorted_candidates
    IN  /\ {c[x] : x \in DOMAIN c} = f.mask \ {f.i}
        /\ Len(c) = Cardinality(f.mask \ {f.i})
        /\ \A a, b \in DOMAIN c :
              a < b => comp[<<f.i, c[a]>>] >= comp[<<f.i, c[b]>>]

(***************************************************************************)
(* C18.  In every expanding search call with pivot i, the candidates tried *)
(* are exactly the entities of the state other than i, each tried once, in *)
(* non-increasing order of weight(i, j): the list is that ordering, the    *)
(* loop starts at its first entry, each iteration tries the entry at the   *)
(* loop position, the position advances by one after each recursive call,  *)
(* and the call returns only when the position is past the last entry.     *)
(***************************************************************************)
C18_CandidatesTried ==
    [][/\ pc' = "loop" => CandidatesInOrder(stack'[Len(stack')])
       /\ (pc = "call" /\ pc' = "loop") =>
             /\ stack'[Len(stack')].k = 1
             /\ stack'[Len(stack')].mask = call.mask
       /\ (pc = "loop" /\ pc' = "call") =>
             /\ stack' = stack
             /\ current_pairs' =
                    Append(current_pairs, <<Top.i, Top.sorted_candidates[Top.k]>>)
       /\ (pc = "ret" /\ pc' = "loop") =>
             stack' = [stack EXCEPT ![Len(stack)].k = Top.k + 1]
       /\ (pc = "loop" /\ pc' = "ret") =>
             Top.k = Len(Top.sorted_candidates) + 1]_vars

\* The loop of a call with three or more candidates of differing weight is
\* at its last candidate.
C18_Witness ==
    /\ pc = "loop"
    /\ Len(Top.sorted_candidates) >= 3
    /\ Top.k = Len(Top.sorted_candidates)
    /\ comp[<<Top.i, Top.sorted_candidates[1]>>] >
           comp[<<Top.i, Top.sorted_candidates[Top.k]>>]
    /\ CandidatesInOrder(Top)

\* search with the candidates of every node tried in any order: the set of
\* best scores a call on mask can leave behind when it is entered with the
\* best score best.  The bound is a function of the state alone, so the
\* cache does not enter.
RECURSIVE search_any_order(_, _, _)
RECURSIVE try_any_order(_, _, _, _, _)
search_any_order(mask, current_score, best) ==
    IF mask = {}
    THEN {IF Improves(current_score, best) THEN current_score ELSE best}
    ELSE IF Prunes(current_score, compute_upper_bound(mask), best)
         THEN {best}
         ELSE LET i        == Min(mask)
                  new_mask == mask \ {i}
              IN  try_any_order(i, new_mask, new_mask, current_score, best)

\* The for loop with the candidates of remaining still to try, any of them next.
try_any_order(i, new_mask, remaining, current_score, best) ==
    IF remaining = {} THEN {best}
    ELSE UNION {
           UNION {try_any_order(i, new_mask, remaining \ {j}, current_score, b) :
                    b \in search_any_order(next_mask(new_mask, j),
                              current_score + comp[<<i, j>>], best)} :
           j \in remaining}

(***************************************************************************)
(* C19.  For non-negative symmetric matrices and even n, the search run    *)
(* with any permutation of the candidates at each node returns the same    *)
(* best score as the search with the descending-weight order.              *)
(***************************************************************************)
C19_OrderIndependent ==
    (pc = "done" /\ Even(n) /\ NonNegative) =>
        search_any_order(full_mask, 0, Sentinel) = {result[1]}

\* A finished solve on a non-negative input whose perfect matchings do not
\* all weigh the same, so that the order decides what is pruned.
C19_Witness ==
    /\ pc = "done"
    /\ Even(n)
    /\ n >= 4
    /\ NonNegative
    /\ \E M \in PerfectMatchings(full_mask) : MatchingWeight(M) < result[1]
    /\ result[1] \in search_any_order(full_mask, 0, Sentinel)

\* The number of search calls open above the current one: its depth below
\* the root call.  In its loop a call has its own frame on the stack.
Depth == IF pc = "loop" THEN Len(stack) - 1 ELSE Len(stack)

(***************************************************************************)
(* C20.  For every n >= 0 and every weight matrix, solve terminates, and   *)
(* the depth of nested search calls below the root never exceeds n / 2     *)
(* rounded down.                                                           *)
(***************************************************************************)
C20_TerminatesBoundedDepth ==
    /\ [](Depth <= n \div 2)
    /\ (pc \in {"call", "loop", "ret"}) ~> (pc = "done")

\* A finished solve in which calls at depth n / 2 reached the terminal case.
C20_Witness ==
    /\ pc = "done"
    /\ n >= 4
    /\ Len(reached) >= 2
    /\ \A a \in DOMAIN reached : Len(reached[a]) = n \div 2

\* search without the cache: compute_upper_bound is recomputed at every call.
\* st holds best_score, best_pairs and allocations, and (history) for every
\* non-empty state called the best score at its first call (first) and the
\* number of later calls on such a state made with a higher best score
\* (revisits).
RECURSIVE search_recompute(_, _, _, _)
RECURSIVE loop_recompute(_, _, _, _, _, _, _)
search_recompute(mask, current_score, pairs, st) ==
    IF mask = {}
    THEN IF Improves(current_score, st.best_score)
         THEN [st EXCEPT !.best_score = current_score,
                         !.best_pairs = CopyInto(clear_typed_list(@), pairs, 1)]
         ELSE st
    ELSE LET seen == [st EXCEPT
                        !.first = IF mask \in DOMAIN @ THEN @
                                  ELSE MemoPut(@, mask, st.best_score),
                        !.revisits = IF /\ mask \in DOMAIN st.first
                                        /\ st.best_score > st.first[mask]
                                     THEN @ + 1 ELSE @]
         IN  IF Prunes(current_score, compute_upper_bound(mask), st.best_score)
             THEN seen
             ELSE LET i        == Min(mask)
                      new_mask == mask \ {i}
                  IN  loop_recompute(i, new_mask, sorted_candidates(i, new_mask),
                                     1, current_score, pairs, seen)

\* for j in sorted_candidates, from position k on.
loop_recompute(i, new_mask, cands, k, current_score, pairs, st) ==
    IF k > Len(cands) THEN st
    ELSE LET j       == cands[k]
             counted == [st EXCEPT !.allocations = CountAllocation(@)]
             after   == search_recompute(next_mask(new_mask, j),
                            current_score + comp[<<i, j>>],
                            Append(pairs, <<i, j>>), counted)
         IN  loop_recompute(i, new_mask, cands, k + 1, current_score, pairs,
                            after)

\* branch_and_bound_numba with that search.
recompute_run ==
    search_recompute(full_mask, 0, <<>>,
        [best_score |-> Sentinel, best_pairs |-> <<>>, allocations |-> 0,
         first |-> <<>>, revisits |-> 0])

(***************************************************************************)
(* C21.  The bound cache is transparent: for every input the search with   *)
(* the cache returns the same best score, best pairing and node count as   *)
(* the search that recomputes compute_upper_bound at every call, also when *)
(* a state is reached again after the best score has risen.                *)
(***************************************************************************)
C21_CacheTransparent ==
    pc = "done" =>
        LET st == recompute_run
        IN  result = <<st.best_score, st.best_pairs, st.allocations>>

\* A finished solve in which states were called again after the best score
\* had risen, so that cached bounds were used against a higher best score.
C21_Witness ==
    /\ pc = "done"
    /\ n >= 6
    /\ recompute_run.revisits >= 2
    /\ Cardinality(DOMAIN memo) < allocations
    /\ result[1] = recompute_run.best_score

====
